---- MODULE Spec2Model ----
(***************************************************************************)
(* Model of convert.Convert (convert/convert.go): the pipeline that loads  *)
(* a module tree, assembles the forest of IR graphs in postorder, filters  *)
(* resource-name properties, annotates nodes with their source locations,  *)
(* selects a generator and runs it.                                        *)
(*                                                                         *)
(* Errors are modelled by their message; the empty message is Go's nil.    *)
(* A value of interface type (TargetOptions) is modelled by the name of    *)
(* its dynamic type, which is what the type assertion and %T observe.      *)
(* Options.Path, Options.Writer defaults and TargetSDKVersion only pass    *)
(* through to collaborators and are left out of the state.                 *)
(***************************************************************************)
EXTENDS Integers, Sequences, FiniteSets, TLC

VARIABLES opts, tree, pc, stack, gs, result, gi, generator,
          built, calls, trace, failed, ctorCalls, generated, output

vars == <<opts, tree, pc, stack, gs, result, gi, generator,
          built, calls, trace, failed, ctorCalls, generated, output>>

\* Largest number of modules in a module tree.
MaxNodes == 3

----------------------------------------------------------------------------
(* Constants of the package *)

LanguageTypescript == "typescript"

LanguagePython == "python"

ValidLanguages == <<LanguageTypescript, LanguagePython>>

----------------------------------------------------------------------------
(* Errors: github.com/pkg/errors as used by Convert *)

NoError == ""

\* errors.Wrapf(err, label): the message is "label: cause".
Wrapf(err, label) == label \o ": " \o err

\* strings.Join(elems, sep)
RECURSIVE Join(_, _)
Join(elems, sep) ==
    IF Len(elems) = 0 THEN ""
    ELSE IF Len(elems) = 1 THEN elems[1]
    ELSE elems[1] \o sep \o Join(Tail(elems), sep)

----------------------------------------------------------------------------
(* Module trees.  Modules are numbered 1..n in preorder, 1 is the root and *)
(* parent[i] < i; the children of a module are ordered by number.          *)

Trees ==
    UNION { { [n |-> k, parent |-> p] :
                p \in { f \in [2..k -> 1..k] : \A i \in 2..k : f[i] < i } } :
            k \in 1..MaxNodes }

RECURSIVE SortedSeq(_)
SortedSeq(S) ==
    IF S = {} THEN <<>>
    ELSE LET m == CHOOSE x \in S : \A y \in S : x <= y
         IN <<m>> \o SortedSeq(S \ {m})

\* tree.Children(): the ordered children of module p.
Children(t, p) == SortedSeq({ i \in 2..t.n : t.parent[i] = p })

----------------------------------------------------------------------------
(* IR nodes *)

Pos(file, line) == [Filename |-> file, Line |-> line]

\* token.Pos.IsValid
IsValid(location) == location.Line > 0

\* A nil *il.Comments
NilComments == [present |-> FALSE, Leading |-> <<>>, Trailing |-> <<>>]

Comments(leading, trailing) ==
    [present |-> TRUE, Leading |-> leading, Trailing |-> trailing]

Node(location, comments) == [Location |-> location, Comments |-> comments]

\* Schema information of one property: the Pulumi schema may be nil, its
\* Default may be nil, and a default may be tagged AutoNamed.
NoSchema == [Pulumi |-> [IsNil |-> TRUE, DefaultIsNil |-> TRUE, AutoNamed |-> FALSE]]

SchemaNoDefault ==
    [Pulumi |-> [IsNil |-> FALSE, DefaultIsNil |-> TRUE, AutoNamed |-> FALSE]]

SchemaDefault(autoNamed) ==
    [Pulumi |-> [IsNil |-> FALSE, DefaultIsNil |-> FALSE, AutoNamed |-> autoNamed]]

ResourceNode(location, comments, isDataSource, properties, schemas) ==
    [Location |-> location, Comments |-> comments, IsDataSource |-> isDataSource,
     Properties |-> properties, Schemas |-> schemas]

\* r.Schemas().PropertySchemas(key)
PropertySchemas(r, key) ==
    IF key \in DOMAIN r.Schemas THEN r.Schemas[key] ELSE NoSchema

----------------------------------------------------------------------------
(* What il.BuildGraph binds for each module.  The declarations of a module *)
(* are fixed by its number: three kinds of module alternate, so that every *)
(* forest of more than one Graph holds different Graphs.                   *)

EmptyMap == <<>>

RichGraph(m) ==
    [Module |-> m,
     Modules |-> ("child" :> Node(Pos("main.tf", 3), NilComments)),
     Providers |-> ("aws" :> Node(Pos("main.tf", 1), Comments(<<"a">>, <<"t">>))),
     Resources |->
        ("bucket" :> ResourceNode(Pos("main.tf", 12), Comments(<<"a">>, <<>>), FALSE,
                        ("name" :> "my-bucket") @@ ("customName" :> "x")
                            @@ ("acl" :> "private") @@ ("tags" :> "t"),
                        ("name" :> SchemaDefault(TRUE)) @@ ("customName" :> SchemaDefault(FALSE))
                            @@ ("acl" :> SchemaNoDefault)))
        @@ ("ami" :> ResourceNode(Pos("data.tf", 0), NilComments, TRUE,
                        ("name" :> "ubuntu") @@ ("customName" :> "y"),
                        ("name" :> SchemaDefault(TRUE)))),
     Outputs |-> ("url" :> Node(Pos("", 7), Comments(<<>>, <<>>))),
     Locals |-> ("l" :> Node(Pos("main.tf", 0), Comments(<<"keep">>, <<>>))),
     Variables |-> ("v" :> Node(Pos("vars.tf", 2), Comments(<<"x", "y">>, <<>>)))]

PlainGraph(m) ==
    [Module |-> m,
     Modules |-> EmptyMap,
     Providers |-> ("gcp" :> Node(Pos("p.tf", 0), NilComments)),
     Resources |->
        ("queue" :> ResourceNode(Pos("q.tf", 0), NilComments, FALSE,
                        ("name" :> "explicit") @@ ("id" :> "q1") @@ ("customName" :> "z"),
                        ("id" :> SchemaDefault(TRUE)) @@ ("name" :> SchemaNoDefault)))
        @@ ("topic" :> ResourceNode(Pos("q.tf", 9), Comments(<<>>, <<"t">>), FALSE,
                        ("name" :> "other"),
                        ("name" :> SchemaDefault(TRUE)))),
     Outputs |-> EmptyMap,
     Locals |-> ("k" :> Node(Pos("q.tf", 4), NilComments)),
     Variables |-> EmptyMap]

EmptyGraph(m) ==
    [Module |-> m, Modules |-> EmptyMap, Providers |-> EmptyMap, Resources |-> EmptyMap,
     Outputs |-> EmptyMap, Locals |-> EmptyMap, Variables |-> EmptyMap]

\* il.BuildGraph(tree, &buildOpts) when it succeeds.
BuildGraph(m, buildOpts) ==
    IF m % 3 = 1 THEN RichGraph(m)
    ELSE IF m % 3 = 2 THEN PlainGraph(m)
    ELSE EmptyGraph(m)

\* The errors the collaborators can return.
TreeError == "bad module path"

LoadError == "module not found"

BindingError == "unknown variable"

BackendError == "unsupported SDK version"

GenerateError == "write failed"

----------------------------------------------------------------------------
(* buildGraphs *)

\* A variant of BuildOptionsOf that forgets a tolerance flag.
BuildOptionsOf_DropFlag(o) ==
    [AllowMissingProviders |-> o.AllowMissingProviders,
     AllowMissingVariables |-> o.AllowMissingVariables,
     AllowMissingComments |-> FALSE,
     ProviderInfoSource |-> o.ProviderInfoSource,
     Logger |-> o.Logger]

\* buildOpts := il.BuildOptions{...}
BuildOptionsOf(o) ==
    [AllowMissingProviders |-> o.AllowMissingProviders,
     AllowMissingVariables |-> o.AllowMissingVariables,
     AllowMissingComments |-> o.AllowMissingComments,
     ProviderInfoSource |-> o.ProviderInfoSource,
     Logger |-> o.Logger]

\* children = append(children, cc...)
AppendChild(children, cc) == children \o cc

\* A variant of ReturnGraphs that puts the module's own Graph first.
ReturnGraphs_Prepend(children, g) == <<g>> \o children

\* return append(children, g), nil
ReturnGraphs(children, g) == Append(children, g)

\* A variant of ReturnError that returns the Graphs collected so far.
ReturnError_Partial(children, err) == [gs |-> children, err |-> err]

\* return nil, err
ReturnError(children, err) == [gs |-> <<>>, err |-> err]

\* One activation of buildGraphs: the module, the index of the next child
\* to visit and the Graphs collected so far.
Frame(m) == [tree |-> m, i |-> 1, children |-> <<>>]

----------------------------------------------------------------------------
(* The property filter *)

\* A variant of KeepProperty that drops every key with a schema default.
KeepProperty_AnyDefault(o, r, key, value) ==
    IF o.ResourceNameProperty = ""
    THEN LET sch == PropertySchemas(r, key).Pulumi
         IN sch.IsNil \/ sch.DefaultIsNil
    ELSE key # o.ResourceNameProperty

\* A variant of KeepProperty that consults the schema in both modes.
KeepProperty_SchemaFirst(o, r, key, value) ==
    LET sch == PropertySchemas(r, key).Pulumi
    IN /\ sch.IsNil \/ sch.DefaultIsNil \/ ~sch.AutoNamed
       /\ o.ResourceNameProperty # "" => key # o.ResourceNameProperty

\* The closure handed to il.FilterProperties: TRUE keeps the property.
KeepProperty(o, r, key, value) ==
    IF o.ResourceNameProperty = ""
    THEN LET sch == PropertySchemas(r, key).Pulumi
         IN sch.IsNil \/ sch.DefaultIsNil \/ ~sch.AutoNamed
    ELSE key # o.ResourceNameProperty

\* il.FilterProperties(r, filter): removes the properties the filter rejects.
FilterProperties(o, r) ==
    [r EXCEPT !.Properties =
        [k \in { key \in DOMAIN r.Properties : KeepProperty(o, r, key, r.Properties[key]) }
            |-> r.Properties[k]]]

\* A variant of FilterApplies without the data-source test.
FilterApplies_All(r) == TRUE

\* if !r.IsDataSource
FilterApplies(r) == ~r.IsDataSource

\* The body of "for _, g := range gs" of the filter pass.
FilterGraph(o, g) ==
    [g EXCEPT !.Resources =
        [name \in DOMAIN g.Resources |->
            IF FilterApplies(g.Resources[name])
            THEN FilterProperties(o, g.Resources[name])
            ELSE g.Resources[name]]]

\* if opts.FilterResourceNames
FilterEnabled(o) == o.FilterResourceNames

----------------------------------------------------------------------------
(* The location annotator *)

AnnotationLine(location) ==
    " Originally defined at " \o location.Filename \o ":" \o ToString(location.Line)

\* A variant of addLocationAnnotation that always appends the separator.
addLocationAnnotation_AlwaysSep(location, comments) ==
    IF ~IsValid(location) THEN comments
    ELSE LET c == IF ~comments.present THEN Comments(<<>>, <<>>) ELSE comments
         IN [c EXCEPT !.Leading = Append(Append(c.Leading, ""), AnnotationLine(location))]

\* addLocationAnnotation(location, comments): the value of *comments afterwards.
addLocationAnnotation(location, comments) ==
    IF ~IsValid(location) THEN comments
    ELSE LET c == IF ~comments.present THEN Comments(<<>>, <<>>) ELSE comments
             sep == IF Len(c.Leading) # 0 THEN Append(c.Leading, "") ELSE c.Leading
         IN [c EXCEPT !.Leading = Append(sep, AnnotationLine(location))]

AnnotateNodes(nodes) ==
    [name \in DOMAIN nodes |->
        [nodes[name] EXCEPT !.Comments =
            addLocationAnnotation(nodes[name].Location, nodes[name].Comments)]]

addLocationAnnotations(m) ==
    [m EXCEPT !.Modules = AnnotateNodes(m.Modules),
              !.Providers = AnnotateNodes(m.Providers),
              !.Resources = AnnotateNodes(m.Resources),
              !.Outputs = AnnotateNodes(m.Outputs),
              !.Locals = AnnotateNodes(m.Locals),
              !.Variables = AnnotateNodes(m.Variables)]

\* if opts.AnnotateNodesWithLocations
AnnotateEnabled(o) == o.AnnotateNodesWithLocations

----------------------------------------------------------------------------
(* Generator dispatch *)

NodeOptions == "nodejs.Options"

NoGenerator == "nil"

\* A variant of newGenerator whose default case selects the python backend.
newGenerator_DefaultPython(projectName, o, backendErr) ==
    IF o.TargetLanguage = LanguageTypescript
    THEN IF o.TargetOptions # NodeOptions
         THEN [generator |-> NoGenerator, ctor |-> <<>>,
               err |-> "invalid target options of type " \o o.TargetOptions]
         ELSE [generator |-> IF backendErr = NoError THEN "nodejs" ELSE NoGenerator,
               ctor |-> <<"nodejs.New">>, err |-> backendErr]
    ELSE [generator |-> "python", ctor |-> <<"python.New">>, err |-> NoError]

\* A variant of newGenerator that does not test the type assertion.
newGenerator_Unchecked(projectName, o, backendErr) ==
    IF o.TargetLanguage = LanguageTypescript
    THEN [generator |-> IF backendErr = NoError THEN "nodejs" ELSE NoGenerator,
          ctor |-> <<"nodejs.New">>, err |-> backendErr]
    ELSE IF o.TargetLanguage = LanguagePython
    THEN [generator |-> "python", ctor |-> <<"python.New">>, err |-> NoError]
    ELSE [generator |-> NoGenerator, ctor |-> <<>>,
          err |-> "invalid language '" \o o.TargetLanguage \o "', expected one of "
                    \o Join(ValidLanguages, ", ")]

\* newGenerator(projectName, opts).  backendErr is the error nodejs.New
\* returns when it is called.  ctor names the backend constructor called.
newGenerator(projectName, o, backendErr) ==
    IF o.TargetLanguage = LanguageTypescript
    THEN IF o.TargetOptions # NodeOptions
         THEN [generator |-> NoGenerator, ctor |-> <<>>,
               err |-> "invalid target options of type " \o o.TargetOptions]
         ELSE [generator |-> IF backendErr = NoError THEN "nodejs" ELSE NoGenerator,
               ctor |-> <<"nodejs.New">>, err |-> backendErr]
    ELSE IF o.TargetLanguage = LanguagePython
    THEN [generator |-> "python", ctor |-> <<"python.New">>, err |-> NoError]
    ELSE [generator |-> NoGenerator, ctor |-> <<>>,
          err |-> "invalid language '" \o o.TargetLanguage \o "', expected one of "
                    \o Join(ValidLanguages, ", ")]

----------------------------------------------------------------------------
(* Convert as a state machine.  pc is the statement Convert is at; stack   *)
(* holds the activations of buildGraphs; gs is the forest Convert holds.   *)
(* built, calls, trace, failed, ctorCalls, generated and output record     *)
(* what happened: the forest as buildGraphs returned it, the BuildGraph    *)
(* invocations, the stages run, the stage that failed with its cause, the  *)
(* backend constructors called, the forests handed to Generate and the     *)
(* writes that reached the output sink.                                    *)

\* The optional collaborators are both left out or both supplied.
OptionsSet ==
    { o \in [AllowMissingProviders : BOOLEAN,
             AllowMissingVariables : BOOLEAN,
             AllowMissingComments : BOOLEAN,
             AnnotateNodesWithLocations : BOOLEAN,
             FilterResourceNames : BOOLEAN,
             ResourceNameProperty : {"", "name", "customName"},
             ProviderInfoSource : {"nil", "schemas"},
             Logger : {"nil", "logger"},
             TargetLanguage : {LanguageTypescript, LanguagePython, "ruby"},
             TargetOptions : {NodeOptions, "string", "<nil>"}] :
        (o.ProviderInfoSource = "nil") <=> (o.Logger = "nil") }

Init ==
    /\ opts \in OptionsSet
    /\ tree \in Trees
    /\ pc = "start"
    /\ stack = <<>>
    /\ gs = <<>>
    /\ result = NoError
    /\ gi = 1
    /\ generator = NoGenerator
    /\ built = <<>>
    /\ calls = <<>>
    /\ trace = <<>>
    /\ failed = [stage |-> "", cause |-> NoError]
    /\ ctorCalls = <<>>
    /\ generated = <<>>
    /\ output = <<>>

\* A variant of Check that goes on after an error.
Check_Ignore(err, next) == next

\* if err != nil { return errors.Wrapf(err, label) }: where Convert goes next.
Check(err, next) == IF err # NoError THEN "done" ELSE next

\* The value Convert returns when a stage ended with err.
Returned(err, label) == IF err # NoError THEN Wrapf(err, label) ELSE NoError

Failure(err, stage) ==
    IF err # NoError THEN [stage |-> stage, cause |-> err] ELSE failed

\* mod, err := module.NewTreeModule("", opts.Path)
NewTreeModule ==
    /\ pc = "start"
    /\ \E err \in {NoError, TreeError} :
        /\ pc' = Check(err, "load")
        /\ result' = Returned(err, "creating tree module")
        /\ failed' = Failure(err, "tree")
    /\ trace' = Append(trace, "tree")
    /\ UNCHANGED <<opts, tree, stack, gs, gi, generator, built, calls, ctorCalls,
                   generated, output>>

\* err = mod.Load(moduleStorage), then the call buildGraphs(mod, true, opts)
Load ==
    /\ pc = "load"
    /\ \E err \in {NoError, LoadError} :
        /\ pc' = Check(err, "build")
        /\ result' = Returned(err, "loading module")
        /\ failed' = Failure(err, "load")
    /\ stack' = <<Frame(1)>>
    /\ trace' = Append(trace, "load")
    /\ UNCHANGED <<opts, tree, gs, gi, generator, built, calls, ctorCalls,
                   generated, output>>

Top == stack[Len(stack)]

\* for _, c := range tree.Children() { cc, err := buildGraphs(c, false, opts)
Descend ==
    /\ pc = "build"
    /\ stack # <<>>
    /\ Top.i <= Len(Children(tree, Top.tree))
    /\ stack' = Append(stack, Frame(Children(tree, Top.tree)[Top.i]))
    /\ UNCHANGED <<opts, tree, pc, gs, result, gi, generator, built, calls, trace,
                   failed, ctorCalls, generated, output>>

\* The forest an activation returns reaches its caller: the loop of the
\* parent activation, or Convert when the activation is the root's.
Deliver(ret) ==
    IF Len(stack) > 1
    THEN /\ stack' = [SubSeq(stack, 1, Len(stack) - 1) EXCEPT
                        ![Len(stack) - 1].children = AppendChild(@, ret),
                        ![Len(stack) - 1].i = @ + 1]
         /\ UNCHANGED <<pc, gs, built, trace>>
    ELSE /\ stack' = <<>>
         /\ gs' = ret
         /\ built' = ret
         /\ pc' = "filter"
         /\ trace' = Append(trace, "build")

\* g, err := il.BuildGraph(tree, &buildOpts), once the children are done.
\* An error is returned by every activation on the stack in turn.
BuildOwn ==
    /\ pc = "build"
    /\ stack # <<>>
    /\ Top.i > Len(Children(tree, Top.tree))
    /\ calls' = Append(calls, [tree |-> Top.tree, opts |-> BuildOptionsOf(opts)])
    /\ \/ /\ Deliver(ReturnGraphs(Top.children, BuildGraph(Top.tree, BuildOptionsOf(opts))))
          /\ UNCHANGED <<result, failed>>
       \/ LET ret == ReturnError(stack[1].children, BindingError)
          IN /\ stack' = <<>>
             /\ gs' = ret.gs
             /\ built' = ret.gs
             /\ pc' = Check(ret.err, "filter")
             /\ result' = Returned(ret.err, "importing Terraform project graphs")
             /\ failed' = Failure(ret.err, "build")
             /\ trace' = Append(trace, "build")
    /\ UNCHANGED <<opts, tree, gi, generator, ctorCalls, generated, output>>

\* One iteration of "for _, g := range gs" of the filter pass.
Filter ==
    /\ pc = "filter"
    /\ FilterEnabled(opts)
    /\ gi <= Len(gs)
    /\ gs' = [gs EXCEPT ![gi] = FilterGraph(opts, gs[gi])]
    /\ gi' = gi + 1
    /\ trace' = Append(trace, "filter")
    /\ UNCHANGED <<opts, tree, pc, stack, result, generator, built, calls, failed,
                   ctorCalls, generated, output>>

\* The filter pass is over, or was not requested.
FilterDone ==
    /\ pc = "filter"
    /\ ~FilterEnabled(opts) \/ gi > Len(gs)
    /\ pc' = "annotate"
    /\ gi' = 1
    /\ UNCHANGED <<opts, tree, stack, gs, result, generator, built, calls, trace,
                   failed, ctorCalls, generated, output>>

\* One iteration of "for _, g := range gs { addLocationAnnotations(g) }".
Annotate ==
    /\ pc = "annotate"
    /\ AnnotateEnabled(opts)
    /\ gi <= Len(gs)
    /\ gs' = [gs EXCEPT ![gi] = addLocationAnnotations(gs[gi])]
    /\ gi' = gi + 1
    /\ trace' = Append(trace, "annotate")
    /\ UNCHANGED <<opts, tree, pc, stack, result, generator, built, calls, failed,
                   ctorCalls, generated, output>>

\* The annotation pass is over, or was not requested.
AnnotateDone ==
    /\ pc = "annotate"
    /\ ~AnnotateEnabled(opts) \/ gi > Len(gs)
    /\ pc' = "dispatch"
    /\ gi' = 1
    /\ UNCHANGED <<opts, tree, stack, gs, result, generator, built, calls, trace,
                   failed, ctorCalls, generated, output>>

\* generator, err := newGenerator("auto", opts)
Dispatch ==
    /\ pc = "dispatch"
    /\ \E backendErr \in {NoError, BackendError} :
        LET r == newGenerator("auto", opts, backendErr)
        IN /\ generator' = r.generator
           /\ ctorCalls' = ctorCalls \o r.ctor
           /\ pc' = Check(r.err, "generate")
           /\ result' = Returned(r.err, "creating generator")
           /\ failed' = Failure(r.err, "dispatch")
    /\ trace' = Append(trace, "dispatch")
    /\ UNCHANGED <<opts, tree, stack, gs, gi, built, calls, generated, output>>

\* err = gen.Generate(gs, generator): the backend writes to opts.Writer and
\* may fail, before or after bytes have reached the sink.
Generate ==
    /\ pc = "generate"
    /\ generated' = Append(generated, gs)
    /\ \E err \in {NoError, GenerateError}, wrote \in BOOLEAN :
        /\ err = NoError => wrote
        /\ output' = IF wrote THEN Append(output, generator) ELSE output
        /\ pc' = "done"
        /\ result' = Returned(err, "generating code")
        /\ failed' = Failure(err, "generate")
    /\ trace' = Append(trace, "generate")
    /\ UNCHANGED <<opts, tree, stack, gs, gi, generator, built, calls, ctorCalls>>

Next ==
    \/ NewTreeModule
    \/ Load
    \/ Descend
    \/ BuildOwn
    \/ Filter
    \/ FilterDone
    \/ Annotate
    \/ AnnotateDone
    \/ Dispatch
    \/ Generate

Spec == Init /\ [][Next]_vars

----------------------------------------------------------------------------
(* Vocabulary of the properties *)

Stages == <<"tree", "load", "build", "filter", "annotate", "dispatch", "generate">>

Rank(stage) == CHOOSE k \in 1..Len(Stages) : Stages[k] = stage

Count(stage) == Cardinality({ k \in 1..Len(trace) : trace[k] = stage })

Ran(stage) == \E k \in 1..Len(trace) : trace[k] = stage

\* buildGraphs has returned to Convert without an error.
Assembled == Ran("build") /\ failed.stage # "build"

\* The filter pass and the annotation pass are behind Convert.
PastFilter == Assembled /\ pc \in {"annotate", "dispatch", "generate", "done"}

PastAnnotate == Assembled /\ pc \in {"dispatch", "generate", "done"}

\* Every module has exactly one Graph in the forest f.
OneGraphPerModule(f) ==
    /\ Len(f) = tree.n
    /\ \A m \in 1..tree.n : \E i \in 1..Len(f) : f[i].Module = m

IndexOf(f, m) == CHOOSE i \in 1..Len(f) : f[i].Module = m

RECURSIVE InSubtree(_, _)
InSubtree(a, x) == x = a \/ (x > 1 /\ InSubtree(a, tree.parent[x]))

\* The forest Convert holds has the Graphs and the resources buildGraphs returned.
SameShape ==
    /\ Len(gs) = Len(built)
    /\ \A i \in 1..Len(built) :
        /\ gs[i].Module = built[i].Module
        /\ DOMAIN gs[i].Resources = DOMAIN built[i].Resources

\* The non-data-source resources, as (graph index, name).
Managed ==
    UNION { { <<i, name>> : name \in { n \in DOMAIN built[i].Resources :
                                          ~built[i].Resources[n].IsDataSource } } :
            i \in 1..Len(built) }

DataSources ==
    UNION { { <<i, name>> : name \in { n \in DOMAIN built[i].Resources :
                                          built[i].Resources[n].IsDataSource } } :
            i \in 1..Len(built) }

\* The six collections of a Graph, in the order the annotator visits them.
Collections(g) ==
    <<g.Modules, g.Providers, g.Resources, g.Outputs, g.Locals, g.Variables>>

\* Every node of the forest buildGraphs returned, as (graph index,
\* collection, name).
Nodes ==
    UNION { UNION { { <<i, c, name>> : name \in DOMAIN Collections(built[i])[c] } :
                    c \in 1..6 } :
            i \in 1..Len(built) }

NodeOf(f, x) == Collections(f[x[1]])[x[2]][x[3]]

SameNodes ==
    /\ Len(gs) = Len(built)
    /\ \A i \in 1..Len(built) : \A c \in 1..6 :
        DOMAIN Collections(gs[i])[c] = DOMAIN Collections(built[i])[c]

\* The schema of key exists, has a default, and the default is auto-named.
AutoNamedKey(r, key) ==
    /\ key \in DOMAIN r.Schemas
    /\ ~r.Schemas[key].Pulumi.IsNil
    /\ ~r.Schemas[key].Pulumi.DefaultIsNil
    /\ r.Schemas[key].Pulumi.AutoNamed

\* The resource after has exactly the properties of before outside dropped,
\* each with the value it had.
DropsExactly(before, after, dropped) ==
    /\ DOMAIN after.Properties = DOMAIN before.Properties \ dropped
    /\ \A k \in DOMAIN after.Properties : after.Properties[k] = before.Properties[k]

----------------------------------------------------------------------------
\* C1: in the forest buildGraphs returns, the Graph of every child module
\* stands at a strictly smaller index than the Graph of its parent, at every
\* depth, and the subtrees of siblings stand in the order of Children().
C1_Postorder ==
    Assembled =>
        /\ OneGraphPerModule(built)
        /\ \A c \in 2..tree.n : IndexOf(built, c) < IndexOf(built, tree.parent[c])
        /\ \A p \in 1..tree.n :
            LET ch == Children(tree, p)
            IN \A j, k \in 1..Len(ch) :
                j < k => \A x, y \in 1..tree.n :
                    InSubtree(ch[j], x) /\ InSubtree(ch[k], y)
                        => IndexOf(built, x) < IndexOf(built, y)

\* A forest of a tree of depth two has been assembled.
C1_Witness ==
    /\ Assembled
    /\ tree.n = 3
    /\ tree.parent[3] = 2
    /\ Len(built) = 3

\* C2: once BuildGraph has failed for a module, buildGraphs hands Convert an
\* error and no forest, and Convert returns that error without running the
\* filter, the annotator, the dispatch or Generate.
C2_FailFast ==
    failed.stage = "build" =>
        /\ gs = <<>>
        /\ built = <<>>
        /\ pc = "done"
        /\ result = "importing Terraform project graphs: " \o BindingError
        /\ ~Ran("filter") /\ ~Ran("annotate") /\ ~Ran("dispatch") /\ ~Ran("generate")
        /\ ctorCalls = <<>>
        /\ generated = <<>>
        /\ output = <<>>

\* BuildGraph failed for a module after the Graph of a sibling was built.
C2_Witness ==
    /\ failed.stage = "build"
    /\ tree.n = 3
    /\ tree.parent[3] = 1
    /\ Len(calls) = 2
    /\ calls[2].tree = 3

\* C3: in auto-detect mode the filter drops from every non-data-source
\* resource exactly the keys whose schema exists and has an auto-named
\* default, and keeps every other key with its value; the values play no part.
C3_AutoDetect ==
    (PastFilter /\ opts.FilterResourceNames /\ opts.ResourceNameProperty = "") =>
        /\ SameShape
        /\ \A x \in Managed :
            LET before == built[x[1]].Resources[x[2]]
                after == gs[x[1]].Resources[x[2]]
            IN DropsExactly(before, after,
                    { k \in DOMAIN before.Properties : AutoNamedKey(before, k) })

\* The auto-named "name" of a resource is gone, the key with a default that
\* is not auto-named, the key without default and the key without schema stay.
C3_Witness ==
    /\ PastFilter /\ opts.FilterResourceNames /\ opts.ResourceNameProperty = ""
    /\ \E i \in 1..Len(gs) :
        /\ "bucket" \in DOMAIN gs[i].Resources
        /\ DOMAIN built[i].Resources["bucket"].Properties
                = {"name", "customName", "acl", "tags"}
        /\ DOMAIN gs[i].Resources["bucket"].Properties = {"customName", "acl", "tags"}

\* C4: with an explicit ResourceNameProperty P the filter drops from every
\* non-data-source resource exactly the key P, whatever the schemas say.
C4_ExplicitKey ==
    (PastFilter /\ opts.FilterResourceNames /\ opts.ResourceNameProperty # "") =>
        /\ SameShape
        /\ \A x \in Managed :
            DropsExactly(built[x[1]].Resources[x[2]], gs[x[1]].Resources[x[2]],
                         {opts.ResourceNameProperty})

\* With P = "customName" the auto-named "name" is kept and "customName" is gone.
C4_Witness ==
    /\ PastFilter /\ opts.FilterResourceNames /\ opts.ResourceNameProperty = "customName"
    /\ \E i \in 1..Len(gs) :
        /\ "bucket" \in DOMAIN gs[i].Resources
        /\ AutoNamedKey(built[i].Resources["bucket"], "name")
        /\ DOMAIN gs[i].Resources["bucket"].Properties = {"name", "acl", "tags"}

C6_Annotation ==
    /\ (PastAnnotate /\ opts.AnnotateNodesWithLocations) =>
        /\ SameNodes
        /\ \A x \in Nodes :
            LET before == NodeOf(built, x)
                after == NodeOf(gs, x)
                line == " Originally defined at " \o before.Location.Filename
                            \o ":" \o ToString(before.Location.Line)
            IN /\ after.Location = before.Location
               /\ IF before.Location.Line > 0
                  THEN /\ after.Comments.present
                       /\ after.Comments.Leading =
                            IF before.Comments.Leading = <<>>
                            THEN <<line>>
                            ELSE before.Comments.Leading \o <<"", line>>
                       /\ after.Comments.Trailing = before.Comments.Trailing
                  ELSE after.Comments = before.Comments
    /\ (Assembled /\ ~opts.AnnotateNodesWithLocations) =>
        /\ SameNodes
        /\ \A x \in Nodes : NodeOf(gs, x).Comments = NodeOf(built, x).Comments

\* The node defined at main.tf:12 with the leading comment "a", a node
\* without Comments and a node with an invalid Location have been annotated.
C6_Witness ==
    /\ PastAnnotate /\ opts.AnnotateNodesWithLocations
    /\ \E i \in 1..Len(gs) :
        /\ "bucket" \in DOMAIN gs[i].Resources
        /\ built[i].Resources["bucket"].Comments.Leading = <<"a">>
        /\ gs[i].Resources["bucket"].Comments.Leading
                = <<"a", "", " Originally defined at main.tf:12">>
        /\ ~built[i].Modules["child"].Comments.present
        /\ gs[i].Modules["child"].Comments.Leading = <<" Originally defined at main.tf:3">>
        /\ gs[i].Outputs["url"].Comments.Leading = <<" Originally defined at :7">>
        /\ gs[i].Locals["l"].Comments.Leading = <<"keep">>
        /\ ~gs[i].Resources["ami"].Comments.present

\* C7: with a TargetLanguage that is neither "typescript" nor "python" no
\* backend constructor is called, no generator exists, Generate is never
\* invoked and nothing is written; once dispatch has run Convert has returned
\* the "creating generator" error that lists "typescript, python".
C7_InvalidLanguage ==
    opts.TargetLanguage \notin {"typescript", "python"} =>
        /\ ctorCalls = <<>>
        /\ generator = "nil"
        /\ generated = <<>>
        /\ output = <<>>
        /\ ~Ran("generate")
        /\ Ran("dispatch") =>
            /\ pc = "done"
            /\ result = "creating generator: invalid language '" \o opts.TargetLanguage
                            \o "', expected one of typescript, python"

\* Dispatch has run for the language "ruby".
C7_Witness ==
    /\ opts.TargetLanguage = "ruby"
    /\ Ran("dispatch")
    /\ result = "creating generator: invalid language 'ruby', expected one of typescript, python"

\* An options value that is a string, or the options of another target, has
\* the shape of no target's own options.
ForeignOptions(language) ==
    IF language = "typescript" THEN {"string", "<nil>"}
    ELSE IF language = "python" THEN {"string", "nodejs.Options"}
    ELSE {}

\* C8 as claimed: for each supported target, options that do not have the
\* target's shape make dispatch fail with an error naming their type, and
\* nothing is generated or written.
C8_AsClaimed ==
    (Ran("dispatch") /\ opts.TargetOptions \in ForeignOptions(opts.TargetLanguage)) =>
        /\ result = "creating generator: invalid target options of type "
                        \o opts.TargetOptions
        /\ generator = "nil"
        /\ generated = <<>>
        /\ output = <<>>

\* C8: for the typescript target, options that are not nodejs.Options make
\* dispatch fail with an error naming their type: no constructor is called,
\* no generator is returned, Generate is not invoked and nothing is written.
\* The python target takes no options: its dispatch succeeds whatever
\* TargetOptions holds.
C8_ShapeMismatch ==
    /\ (opts.TargetLanguage = "typescript" /\ opts.TargetOptions # "nodejs.Options") =>
        /\ ctorCalls = <<>>
        /\ generator = "nil"
        /\ generated = <<>>
        /\ output = <<>>
        /\ ~Ran("generate")
        /\ Ran("dispatch") =>
            /\ pc = "done"
            /\ result = "creating generator: invalid target options of type "
                            \o opts.TargetOptions
    /\ (opts.TargetLanguage = "python" /\ Ran("dispatch")) =>
        /\ failed.stage # "dispatch"
        /\ generator = "python"
        /\ ctorCalls = <<"python.New">>

\* Dispatch has run for typescript with options of type string.
C8_Witness ==
    /\ opts.TargetLanguage = "typescript"
    /\ opts.TargetOptions = "string"
    /\ Ran("dispatch")
    /\ result = "creating generator: invalid target options of type string"

\* The label Convert wraps the error of a stage with.
Label(stage) ==
    IF stage = "tree" THEN "creating tree module"
    ELSE IF stage = "load" THEN "loading module"
    ELSE IF stage = "build" THEN "importing Terraform project graphs"
    ELSE IF stage = "dispatch" THEN "creating generator"
    ELSE "generating code"

\* C9: the stages run in the order tree, load, build, filter, annotate,
\* dispatch, generate, the two passes only when requested; nothing runs after
\* a failure, and Convert returns the failure wrapped with the label of its
\* stage; each Graph is filtered and annotated at most once, annotation
\* starts only when the filter has passed over the whole forest, and Generate
\* runs at most once, on the forest both passes have finished with.
C9_StageOrder ==
    /\ \A j, k \in 1..Len(trace) : j < k =>
        /\ Rank(trace[j]) <= Rank(trace[k])
        /\ trace[j] = trace[k] => trace[j] \in {"filter", "annotate"}
    /\ \A k \in 2..Len(trace) :
        trace[k] # trace[k - 1] =>
            \A r \in 1..(Rank(trace[k]) - 1) :
                Stages[r] \in {"filter", "annotate"} \/ Ran(Stages[r])
    /\ Ran("filter") => opts.FilterResourceNames
    /\ Ran("annotate") => opts.AnnotateNodesWithLocations
    /\ Count("filter") <= Len(gs)
    /\ Count("annotate") <= Len(gs)
    /\ (Ran("annotate") \/ Ran("dispatch")) =>
            (opts.FilterResourceNames => Count("filter") = Len(gs))
    /\ Ran("dispatch") =>
            (opts.AnnotateNodesWithLocations => Count("annotate") = Len(gs))
    /\ Len(generated) <= 1
    /\ Ran("generate") <=> Len(generated) = 1
    /\ Ran("generate") => generated[1] = gs /\ Len(gs) = tree.n
    /\ failed.stage # "" =>
        /\ pc = "done"
        /\ trace[Len(trace)] = failed.stage
        /\ result = Label(failed.stage) \o ": " \o failed.cause
    /\ failed.stage = "" => result = ""
    /\ (pc = "done" /\ failed.stage = "") => trace[Len(trace)] = "generate"

\* Convert has returned without error after both passes went over a forest
\* of three Graphs.
C9_Witness ==
    /\ pc = "done"
    /\ result = ""
    /\ Len(gs) = 3
    /\ Count("filter") = 3
    /\ Count("annotate") = 3
    /\ Len(output) = 1

\* C10: BuildGraph is invoked at most once per module, always with the
\* tolerance flags, schema source and logger of Convert's options; when the
\* assembly succeeds it has been invoked for every module and the forest
\* holds exactly one Graph per module, one Graph for a root without children.
C10_OneBuildPerModule ==
    /\ \A j, k \in 1..Len(calls) : calls[j].tree = calls[k].tree => j = k
    /\ \A k \in 1..Len(calls) :
        /\ calls[k].tree \in 1..tree.n
        /\ calls[k].opts.AllowMissingProviders = opts.AllowMissingProviders
        /\ calls[k].opts.AllowMissingVariables = opts.AllowMissingVariables
        /\ calls[k].opts.AllowMissingComments = opts.AllowMissingComments
        /\ calls[k].opts.ProviderInfoSource = opts.ProviderInfoSource
        /\ calls[k].opts.Logger = opts.Logger
    /\ Assembled =>
        /\ Len(calls) = tree.n
        /\ OneGraphPerModule(built)
        /\ \A k \in 1..Len(calls) : built[k].Module = calls[k].tree
        /\ tree.n = 1 => Len(built) = 1 /\ built[1].Module = 1

\* A forest of three Graphs has been assembled under options that set a
\* tolerance flag and supply the collaborators.
C10_Witness ==
    /\ Assembled
    /\ tree.n = 3
    /\ Len(calls) = 3
    /\ opts.AllowMissingVariables /\ ~opts.AllowMissingProviders
    /\ opts.Logger = "logger"
    /\ calls[3].opts.AllowMissingVariables

====
